---- MODULE Spec2Model ----
(***************************************************************************)
(* Dashboard.py of the global street-food dashboard: a linear Streamlit    *)
(* script (load, clean, derive, filter, aggregate) that Streamlit runs     *)
(* again from the top on every widget interaction.                         *)
(*                                                                         *)
(* Text is a sequence of one-character strings, so that replace, split and *)
(* comparison are computed character by character.  A column name is a     *)
(* sequence of tokens, a token being one whitespace character or a maximal *)
(* run of other characters.  A cell is [k, v]: k = "na" (pandas NaN),      *)
(* "str" (v a text) or "num" (v an integer; prices are whole numbers).     *)
(* A statistic is NaN or an exact fraction num/den.                        *)
(***************************************************************************)
EXTENDS Integers, Sequences, FiniteSets, TLC

VARIABLES pc, df, all_countries, selected_country, filtered_df, filtered_shares,
          warning, global_avg_price, avg_price_by_city, csv, ci_todo,
          ci_results, ci_df, page_ci, avg_price_by_dish, cooking_counts,
          violin_df, avg_price_country, dish_counts, call, ret

vars == <<pc, df, all_countries, selected_country, filtered_df, filtered_shares,
          warning, global_avg_price, avg_price_by_city, csv, ci_todo,
          ci_results, ci_df, page_ci, avg_price_by_dish, cooking_counts,
          violin_df, avg_price_country, dish_counts, call, ret>>

\* ---------------------------------------------------------------- bounds
MaxRows == 3
MaxText == 5
MaxSample == 3

\* ------------------------------------------------------------------ text
Range(s) == {s[i] : i \in DOMAIN s}

\* Unicode code points of the characters the data uses (Python compares
\* strings by code point).
CharCode(c) ==
  CASE c = " " -> 32 [] c = "," -> 44 [] c = "-" -> 45 [] c = "0" -> 48 [] c = "1" -> 49
    [] c = "2" -> 50 [] c = "3" -> 51 [] c = "4" -> 52 [] c = "5" -> 53
    [] c = "6" -> 54 [] c = "7" -> 55 [] c = "8" -> 56 [] c = "9" -> 57
    [] c = "A" -> 65 [] c = "B" -> 66 [] c = "F" -> 70 [] c = "G" -> 71
    [] c = "L" -> 76 [] c = "N" -> 78 [] c = "P" -> 80 [] c = "T" -> 84
    [] c = "V" -> 86 [] c = "a" -> 97 [] c = "b" -> 98 [] c = "c" -> 99
    [] c = "d" -> 100 [] c = "e" -> 101 [] c = "g" -> 103 [] c = "i" -> 105 [] c = "l" -> 108
    [] c = "m" -> 109 [] c = "n" -> 110 [] c = "o" -> 111 [] c = "p" -> 112
    [] c = "r" -> 114 [] c = "t" -> 116 [] c = "u" -> 117 [] c = "x" -> 120
    [] c = "y" -> 121 [] OTHER -> 63

RECURSIVE TextLess(_, _)
TextLess(a, b) ==
  IF a = <<>> THEN b # <<>>
  ELSE IF b = <<>> THEN FALSE
  ELSE IF a[1] = b[1] THEN TextLess(Tail(a), Tail(b))
  ELSE CharCode(a[1]) < CharCode(b[1])

\* sorted(S) of a set of texts: ascending.
RECURSIVE SortedTexts(_)
SortedTexts(S) ==
  IF S = {} THEN <<>>
  ELSE LET m == CHOOSE t \in S : \A u \in S \ {t} : TextLess(t, u)
       IN <<m>> \o SortedTexts(S \ {m})

\* str.replace(old, new): left to right, non-overlapping occurrences.
RECURSIVE StrReplace(_, _, _)
StrReplace(s, old, new) ==
  IF Len(s) < Len(old) THEN s
  ELSE IF SubSeq(s, 1, Len(old)) = old
       THEN new \o StrReplace(SubSeq(s, Len(old) + 1, Len(s)), old, new)
       ELSE <<s[1]>> \o StrReplace(Tail(s), old, new)

\* str.split(","): the segments between the separators, empty ones included.
RECURSIVE SplitOn(_, _, _)
SplitOn(s, sep, cur) ==
  IF s = <<>> THEN <<cur>>
  ELSE IF s[1] = sep THEN <<cur>> \o SplitOn(Tail(s), sep, <<>>)
  ELSE SplitOn(Tail(s), sep, Append(cur, s[1]))

\* A count of the non-empty segments only.
StrSplitCommaNonEmpty(s) ==
  SelectSeq(SplitOn(s, ",", <<>>), LAMBDA seg : seg # <<>>)

StrSplitComma(s) == SplitOn(s, ",", <<>>)

\* str.split(): the maximal runs of non-whitespace characters.
RECURSIVE SplitWs(_, _)
SplitWs(s, cur) ==
  IF s = <<>> THEN (IF cur = <<>> THEN <<>> ELSE <<cur>>)
  ELSE IF s[1] = " "
       THEN (IF cur = <<>> THEN <<>> ELSE <<cur>>) \o SplitWs(Tail(s), <<>>)
       ELSE SplitWs(Tail(s), Append(cur, s[1]))

StrSplitWhitespace(s) == SplitWs(s, <<>>)

\* Index.str.strip() on one column name: leading and trailing whitespace off.
RECURSIVE LStrip(_)
LStrip(n) == IF n # <<>> /\ n[1] = " " THEN LStrip(Tail(n)) ELSE n

RECURSIVE RStrip(_)
RStrip(n) ==
  IF n # <<>> /\ n[Len(n)] = " " THEN RStrip(SubSeq(n, 1, Len(n) - 1)) ELSE n

StrStrip(n) == RStrip(LStrip(n))

\* ----------------------------------------------------------------- cells
NA == [k |-> "na", v |-> <<>>]
Str(t) == [k |-> "str", v |-> t]
Num(n) == [k |-> "num", v |-> n]
IsNA(c) == c.k = "na"

Digit(c) == CharCode(c) - 48
IsDigit(c) == CharCode(c) >= 48 /\ CharCode(c) <= 57

RECURSIVE DigitsValue(_, _)
DigitsValue(s, acc) ==
  IF s = <<>> THEN acc ELSE DigitsValue(Tail(s), 10 * acc + Digit(s[1]))

\* errors="ignore" in place of "coerce": what fails to parse is kept.
ToNumericIgnore(c) ==
  IF c.k = "str" /\ c.v # <<>> /\ \A i \in DOMAIN c.v : IsDigit(c.v[i])
  THEN Num(DigitsValue(c.v, 0))
  ELSE c

\* pd.to_numeric(..., errors="coerce") on one cell: a number stays, a text of
\* digits is parsed, everything else becomes NaN.
ToNumeric(c) ==
  IF c.k = "num" THEN c
  ELSE IF c.k = "str" /\ c.v # <<>> /\ \A i \in DOMAIN c.v : IsDigit(c.v[i])
       THEN Num(DigitsValue(c.v, 0))
       ELSE NA

\* ------------------------------------------------------------ statistics
NaN == [nan |-> TRUE, num |-> 0, den |-> 1]
Frac(n, d) == [nan |-> FALSE, num |-> n, den |-> d]
FracLess(a, b) == a.num * b.den < b.num * a.den
FracEq(a, b) == a.num * b.den = b.num * a.den

RECURSIVE SumSeq(_)
SumSeq(s) == IF s = <<>> THEN 0 ELSE s[1] + SumSeq(Tail(s))

\* Series.mean(): NaN for no value.
Mean(data) == IF data = <<>> THEN NaN ELSE Frac(SumSeq(data), Len(data))

\* DescrStatsW(data).tconfint_mean(alpha): the t interval is a function of the
\* sample's size, sum and sum of squares; it is kept symbolic.
Undefined == [nan |-> TRUE, stat |-> <<>>]
TBound(side, data) ==
  [nan |-> FALSE,
   stat |-> <<side, Len(data), SumSeq(data),
              SumSeq([i \in DOMAIN data |-> data[i] * data[i]])>>]

TConfintMean(data) == <<TBound("lower", data), TBound("upper", data)>>

\* ------------------------------------------------------------ data frames
\* A frame is [columns, rows]; a row is [idx, cells], idx the index label
\* read_csv gave it and cells aligned with columns.
ColCountry == <<"Country">>
ColCity == <<"Region/City">>
ColPrice == <<"TypicalPrice(USD)">>
ColVegetarian == <<"Vegetarian">>
ColCookingMethod == <<"CookingMethod">>
ColIngredients == <<"Ingredients">>
ColDescription == <<"Description">>
ColIngredientCount == <<"IngredientCount">>
ColDishType == <<"DishType">>

HasCol(d, name) == \E i \in DOMAIN d.columns : d.columns[i] = name
ColIndex(d, name) == CHOOSE i \in DOMAIN d.columns : d.columns[i] = name
Cell(d, r, name) == r.cells[ColIndex(d, name)]

\* df[name] = vals: an existing column is overwritten in place, a new one is
\* appended; vals is aligned with the rows.
SetCol(d, name, vals) ==
  IF HasCol(d, name)
  THEN [d EXCEPT !.rows =
          [j \in DOMAIN d.rows |->
             [d.rows[j] EXCEPT !.cells[ColIndex(d, name)] = vals[j]]]]
  ELSE [columns |-> Append(d.columns, name),
        rows |-> [j \in DOMAIN d.rows |->
                    [d.rows[j] EXCEPT !.cells = Append(@, vals[j])]]]

\* d[name].str raises AttributeError when the column holds no text at all:
\* read_csv reads a column of empty fields only as float64 (a column of no
\* rows stays object and passes).
StrAccessorFails(d, name) ==
  /\ d.rows # <<>>
  /\ \A j \in DOMAIN d.rows : IsNA(Cell(d, d.rows[j], name))

\* df.dropna(): the rows with no NaN cell, in order.
DropNA(d) ==
  [d EXCEPT !.rows =
     SelectSeq(d.rows, LAMBDA r : \A i \in DOMAIN r.cells : ~IsNA(r.cells[i]))]

\* ------------------------------------------------- the script's operations
None == <<>>
Some(x) == <<x>>
Get(o) == o[1]

Leba0n == <<"L", "e", "b", "a", "0", "n">>
Lebanon == <<"L", "e", "b", "a", "n", "o", "n">>
AllText == <<"A", "l", "l">>
VegetarianText == <<"V", "e", "g", "e", "t", "a", "r", "i", "a", "n">>
NonVegetarianText ==
  <<"N", "o", "n", "-", "V", "e", "g", "e", "t", "a", "r", "i", "a", "n">>

\* df["Country"].str.replace("Leba0n", "Lebanon"): NaN stays NaN.
FixTypoCell(c) == IF c.k = "str" THEN Str(StrReplace(c.v, Leba0n, Lebanon)) ELSE c

FixTypo(d) ==
  SetCol(d, ColCountry,
         [j \in DOMAIN d.rows |-> FixTypoCell(Cell(d, d.rows[j], ColCountry))])

\* df.columns = df.columns.str.strip()
StripColumns(d) ==
  [d EXCEPT !.columns = [i \in DOMAIN d.columns |-> StrStrip(d.columns[i])]]

\* df[price] = pd.to_numeric(df[price], errors="coerce")
MakePriceNumeric(d) ==
  SetCol(d, ColPrice,
         [j \in DOMAIN d.rows |-> ToNumeric(Cell(d, d.rows[j], ColPrice))])

\* .str.split(",").str.len() and .str.split().str.len() on one cell.
CommaCountCell(c) == IF c.k = "str" THEN Num(Len(StrSplitComma(c.v))) ELSE NA
WordCountCell(c) == IF c.k = "str" THEN Num(Len(StrSplitWhitespace(c.v))) ELSE NA

\* The column the count is taken from: chosen by the schema.
IngredientSource(d) ==
  IF HasCol(d, ColIngredients) THEN ColIngredients ELSE ColDescription

IngredientCount(d) ==
  SetCol(d, ColIngredientCount,
         [j \in DOMAIN d.rows |->
            IF HasCol(d, ColIngredients)
            THEN CommaCountCell(Cell(d, d.rows[j], ColIngredients))
            ELSE WordCountCell(Cell(d, d.rows[j], ColDescription))])

\* sorted(df[name].unique()) of a text column without NaN.
SortedUnique(d, name) ==
  SortedTexts({Cell(d, d.rows[j], name).v : j \in DOMAIN d.rows})

LowerChar(c) == CASE c = "P" -> "p" [] c = "L" -> "l" [] OTHER -> c
Lower(t) == [i \in DOMAIN t |-> LowerChar(t[i])]

\* A comparison that ignores case.
FilterByCountryAnyCase(d, selected) ==
  [data |-> IF selected = AllText THEN d
            ELSE [d EXCEPT !.rows =
                    SelectSeq(d.rows,
                              LAMBDA r : Lower(Cell(d, r, ColCountry).v) =
                                         Lower(selected))],
   shares |-> FALSE]

\* filtered_df = df without the copy: one object under two names.
FilterByCountryNoCopy(d, selected) ==
  [data |-> IF selected = AllText THEN d
            ELSE [d EXCEPT !.rows =
                    SelectSeq(d.rows,
                              LAMBDA r : Cell(d, r, ColCountry) = Str(selected))],
   shares |-> selected = AllText]

\* df.copy() if selected == "All" else df[df["Country"] == selected].
\* shares: whether the result is the same object as d (neither branch is).
FilterByCountry(d, selected) ==
  [data |-> IF selected = AllText THEN d
            ELSE [d EXCEPT !.rows =
                    SelectSeq(d.rows,
                              LAMBDA r : Cell(d, r, ColCountry) = Str(selected))],
   shares |-> FALSE]

\* The values of column val in the rows whose column key holds text k.
ValuesOf(d, key, k, val) ==
  LET rs == SelectSeq(d.rows, LAMBDA r : Cell(d, r, key) = Str(k))
  IN [j \in DOMAIN rs |-> Cell(d, rs[j], val).v]

\* d.groupby(key)[val].mean(): one row per key, keys ascending.
GroupMean(d, key, val) ==
  LET ks == SortedUnique(d, key)
  IN [i \in DOMAIN ks |->
        [key |-> ks[i], mean |-> Mean(ValuesOf(d, key, ks[i], val))]]

Perms(n) ==
  {p \in [1..n -> 1..n] : \A i, j \in 1..n : i # j => p[i] # p[j]}

\* s.sort_values(ascending=False) with the default kind="quicksort": every
\* arrangement of s in non-increasing order of value; quicksort is not
\* stable, so the order among equal values is whatever the sort leaves.
SortValuesDescending(s) ==
  {[i \in DOMAIN s |-> s[p[i]]] : p \in
     {q \in Perms(Len(s)) :
        \A i \in 1..(Len(s) - 1) : ~FracLess(s[q[i]].mean, s[q[i + 1]].mean)}}

\* len(data) > 0 in place of len(data) > 1.
ComputeCiFromOne(data) ==
  IF Len(data) > 0
  THEN [mean |-> Mean(data),
        ci |-> IF Len(data) > 1 THEN TConfintMean(data)
               ELSE <<Undefined, Undefined>>]
  ELSE [mean |-> NaN, ci |-> <<Undefined, Undefined>>]

\* compute_ci(data, confidence=0.95)
ComputeCi(data) ==
  IF Len(data) > 1
  THEN [mean |-> Mean(data), ci |-> TConfintMean(data)]
  ELSE [mean |-> NaN, ci |-> <<Undefined, Undefined>>]

\* The intervals taken from the filter result, as the other charts are.
CiSourceFiltered(full, filtered) == filtered

\* The frame the confidence intervals are computed from.
CiSource(full, filtered) == full

\* One pass of the loop body for a country and its prices.
CiRow(country, prices) ==
  LET r == ComputeCi(prices)
  IN [Country |-> country, Mean |-> r.mean, CI_Lower |-> r.ci[1],
      CI_Upper |-> r.ci[2], Sample_Size |-> Len(prices)]

\* np.where(d["Vegetarian"].astype(int) == 1, "Vegetarian", "Non-Vegetarian")
DishTypeCell(c) == IF c.v = 1 THEN Str(VegetarianText) ELSE Str(NonVegetarianText)

WithDishType(d) ==
  SetCol(d, ColDishType,
         [j \in DOMAIN d.rows |-> DishTypeCell(Cell(d, d.rows[j], ColVegetarian))])

\* d[name].value_counts() as a set of <<value, count>>; its order is not
\* modelled.
ValueCounts(d, name) ==
  {<<k, Len(SelectSeq(d.rows, LAMBDA r : Cell(d, r, name) = Str(k)))>> :
     k \in {Cell(d, d.rows[j], name).v : j \in DOMAIN d.rows}}

\* ------------------------------------------------------------ the inputs
Peru == <<"P", "e", "r", "u">>
PeruLower == <<"p", "e", "r", "u">>
Beirut == <<"B", "e", "i", "r", "u", "t">>
Tyre == <<"T", "y", "r", "e">>
Lima == <<"L", "i", "m", "a">>
Fried == <<"F", "r", "i", "e", "d">>
Grilled == <<"G", "r", "i", "l", "l", "e", "d">>

\* Rows of the CSV as read_csv returns them (an empty field is NaN), in the
\* column order Country, Region/City, TypicalPrice(USD), Vegetarian,
\* CookingMethod, Ingredients, Description.
RowPool ==
  { <<Str(Leba0n), Str(Beirut), Str(<<"5">>), Num(1), Str(Fried),
      Str(<<"a", ",", "b", ",", "c">>), Str(<<"x", " ", "y">>)>>,
    <<Str(Lebanon), Str(Beirut), Str(<<"b", "a", "d">>), Num(0), Str(Fried),
      Str(<<"x">>), Str(<<"x">>)>>,
    <<Str(Lebanon), Str(Tyre), Str(<<"3">>), Num(0), Str(Grilled),
      Str(<<"a", ",">>), Str(<<"x">>)>>,
    <<Str(Peru), Str(Lima), Str(<<"3">>), Num(1), Str(Fried),
      Str(<<"x">>), Str(<<" ", "x", " ", " ", "y">>)>>,
    <<Str(Peru), Str(Lima), Str(<<"7">>), Num(0), Str(Grilled),
      NA, Str(<<"x">>)>>,
    <<Str(PeruLower), Str(Lima), Str(<<"5">>), Num(1), Str(Fried),
      Str(<<"x">>), Str(<<"x", " ", "y">>)>>,
    <<NA, Str(Lima), Str(<<"3">>), Num(1), Str(Fried),
      Str(<<"x">>), Str(<<"x">>)>> }

\* Headers of the CSV: the columns and, for each, the field of a pool row it
\* holds.  Plain; Country padded; price and Ingredients padded; no
\* Ingredients column.
HeaderPool ==
  { [columns |-> <<ColCountry, ColCity, ColPrice, ColVegetarian,
                   ColCookingMethod, ColIngredients, ColDescription>>,
     fields |-> <<1, 2, 3, 4, 5, 6, 7>>],
    [columns |-> <<<<" ", "Country">>, ColCity, ColPrice, ColVegetarian,
                   ColCookingMethod, ColIngredients, ColDescription>>,
     fields |-> <<1, 2, 3, 4, 5, 6, 7>>],
    [columns |-> <<ColCountry, ColCity, <<"TypicalPrice(USD)", " ">>,
                   ColVegetarian, ColCookingMethod, <<" ", "Ingredients">>,
                   ColDescription>>,
     fields |-> <<1, 2, 3, 4, 5, 6, 7>>],
    [columns |-> <<ColCountry, ColCity, ColPrice, ColVegetarian,
                   ColCookingMethod, ColDescription>>,
     fields |-> <<1, 2, 3, 4, 5, 7>>] }

\* pd.read_csv: index labels 0, 1, ...
ReadCsv(h, t) ==
  [columns |-> h.columns,
   rows |-> [j \in DOMAIN t |->
               [idx |-> j - 1,
                cells |-> [i \in DOMAIN h.fields |-> t[j][h.fields[i]]]]]]

CsvFiles ==
  UNION {{ReadCsv(h, t) : t \in [1..n -> RowPool], h \in HeaderPool} :
           n \in 0..MaxRows}

\* ------------------------------------------------------------- the script
\* The state a run of the script starts from, given the file and what the
\* page holds.
Init ==
  /\ csv \in CsvFiles
  /\ df = csv
  /\ pc = "fix_typo"
  /\ selected_country = AllText
  /\ all_countries = <<>>
  /\ filtered_df = None
  /\ filtered_shares = FALSE
  /\ warning = FALSE
  /\ global_avg_price = None
  /\ avg_price_by_city = None
  /\ ci_todo = <<>>
  /\ ci_results = <<>>
  /\ ci_df = None
  /\ page_ci = None
  /\ avg_price_by_dish = None
  /\ cooking_counts = None
  /\ violin_df = None
  /\ avg_price_country = None
  /\ dish_counts = None
  /\ call = None
  /\ ret = None

Harness == <<call, ret>>
Later == <<avg_price_by_dish, cooking_counts, violin_df, avg_price_country,
           dish_counts>>
CiVars == <<ci_todo, ci_results, ci_df, page_ci>>
Sidebar == <<all_countries, selected_country, filtered_df, filtered_shares,
             warning>>
Early == <<global_avg_price, avg_price_by_city>>

\* Line 15.  df["Country"] raises KeyError when no column has that name, and
\* .str raises when the column holds no text.
FixTypoStep ==
  /\ pc = "fix_typo"
  /\ IF HasCol(df, ColCountry) /\ ~StrAccessorFails(df, ColCountry)
     THEN df' = FixTypo(df) /\ pc' = "strip_columns"
     ELSE df' = df /\ pc' = "error"
  /\ UNCHANGED <<csv, Sidebar, Early, CiVars, Later, Harness>>

\* Line 18.
StripColumnsStep ==
  /\ pc = "strip_columns"
  /\ df' = StripColumns(df)
  /\ pc' = "make_price_numeric"
  /\ UNCHANGED <<csv, Sidebar, Early, CiVars, Later, Harness>>

\* Line 21.
MakePriceNumericStep ==
  /\ pc = "make_price_numeric"
  /\ IF HasCol(df, ColPrice)
     THEN df' = MakePriceNumeric(df) /\ pc' = "ingredient_count"
     ELSE df' = df /\ pc' = "error"
  /\ UNCHANGED <<csv, Sidebar, Early, CiVars, Later, Harness>>

\* Lines 24-28.
IngredientCountStep ==
  /\ pc = "ingredient_count"
  /\ IF HasCol(df, IngredientSource(df))
        /\ ~StrAccessorFails(df, IngredientSource(df))
     THEN df' = IngredientCount(df) /\ pc' = "dropna"
     ELSE df' = df /\ pc' = "error"
  /\ UNCHANGED <<csv, Sidebar, Early, CiVars, Later, Harness>>

\* Line 31.
DropNaStep ==
  /\ pc = "dropna"
  /\ df' = DropNA(df)
  /\ pc' = "select_country"
  /\ UNCHANGED <<csv, Sidebar, Early, CiVars, Later, Harness>>

\* A fixed list of countries in place of the table's own.
OptionsFixed(countries) == <<AllText, Lebanon, Peru>>

\* The options of the selectbox.
Options(countries) == <<AllText>> \o countries

\* Lines 36-37.  The selectbox returns the widget's value, the first option
\* until the user picks another.
SelectCountryStep ==
  /\ pc = "select_country"
  /\ all_countries' = SortedUnique(df, ColCountry)
  /\ selected_country' =
       IF selected_country \in Range(Options(all_countries'))
       THEN selected_country ELSE AllText
  /\ pc' = "filter"
  /\ UNCHANGED <<csv, df, filtered_df, filtered_shares, warning, Early, CiVars,
                 Later, Harness>>

\* Line 40.
FilterStep ==
  /\ pc = "filter"
  /\ filtered_df' = Some(FilterByCountry(df, selected_country).data)
  /\ filtered_shares' = FilterByCountry(df, selected_country).shares
  /\ pc' = "check_empty"
  /\ UNCHANGED <<csv, df, all_countries, selected_country, warning, Early,
                 CiVars, Later, Harness>>

\* No st.stop(): the script goes on after the warning.
AfterWarningContinue == "global_avg"

\* What st.stop() leaves the script to do: nothing.
AfterWarning == "stopped"

\* Lines 41-43.  At the end of a run the page drops what the run did not
\* render again.
CheckEmptyStep ==
  /\ pc = "check_empty"
  /\ IF Get(filtered_df).rows = <<>>
     THEN /\ warning' = TRUE
          /\ pc' = AfterWarning
          /\ page_ci' = IF AfterWarning = "stopped" THEN None ELSE page_ci
     ELSE /\ warning' = FALSE
          /\ pc' = "global_avg"
          /\ page_ci' = page_ci
  /\ UNCHANGED <<csv, df, all_countries, selected_country, filtered_df,
                 filtered_shares, Early, ci_todo, ci_results, ci_df, Later,
                 Harness>>

\* Line 46.
GlobalAvgStep ==
  /\ pc = "global_avg"
  /\ global_avg_price' = Some(Mean([j \in DOMAIN df.rows |->
                                      Cell(df, df.rows[j], ColPrice).v]))
  /\ pc' = "avg_by_city"
  /\ UNCHANGED <<csv, df, Sidebar, avg_price_by_city, CiVars, Later, Harness>>

\* Lines 52-55.
AvgPriceByCityStep ==
  /\ pc = "avg_by_city"
  /\ \E sorted \in SortValuesDescending(GroupMean(Get(filtered_df), ColCity, ColPrice)) :
       avg_price_by_city' = Some(sorted)
  /\ pc' = "ci_start"
  /\ UNCHANGED <<csv, df, Sidebar, global_avg_price, CiVars, Later, Harness>>

\* Lines 74-75: the for statement evaluates its iterable once.
CiStartStep ==
  /\ pc = "ci_start"
  /\ ci_results' = <<>>
  /\ ci_todo' = SortedUnique(CiSource(df, Get(filtered_df)), ColCountry)
  /\ pc' = "ci_loop"
  /\ UNCHANGED <<csv, df, Sidebar, Early, ci_df, page_ci, Later, Harness>>

\* Lines 76-84: one iteration.
CiLoopStep ==
  /\ pc = "ci_loop"
  /\ ci_todo # <<>>
  /\ ci_results' =
       Append(ci_results,
              CiRow(Head(ci_todo),
                    ValuesOf(CiSource(df, Get(filtered_df)), ColCountry,
                             Head(ci_todo), ColPrice)))
  /\ ci_todo' = Tail(ci_todo)
  /\ pc' = "ci_loop"
  /\ UNCHANGED <<csv, df, Sidebar, Early, ci_df, page_ci, Later, Harness>>

\* Line 86.
CiFrameStep ==
  /\ pc = "ci_loop"
  /\ ci_todo = <<>>
  /\ ci_df' = Some(ci_results)
  /\ pc' = "ci_render"
  /\ UNCHANGED <<csv, df, Sidebar, Early, ci_todo, ci_results, page_ci, Later,
                 Harness>>

\* Lines 88-130: the chart of ci_df replaces the one on the page.
CiRenderStep ==
  /\ pc = "ci_render"
  /\ page_ci' = ci_df
  /\ pc' = "dish_type"
  /\ UNCHANGED <<csv, df, Sidebar, Early, ci_todo, ci_results, ci_df, Later,
                 Harness>>

\* Lines 139-145.  The assignment writes to the object filtered_df names, and
\* so to df when the two are one object.
DishTypeStep ==
  /\ pc = "dish_type"
  /\ filtered_df' = Some(WithDishType(Get(filtered_df)))
  /\ df' = IF filtered_shares THEN WithDishType(df) ELSE df
  /\ avg_price_by_dish' =
       Some(GroupMean(WithDishType(Get(filtered_df)), ColDishType, ColPrice))
  /\ pc' = "cooking_counts"
  /\ UNCHANGED <<csv, all_countries, selected_country, filtered_shares, warning,
                 Early, CiVars, cooking_counts, violin_df, avg_price_country,
                 dish_counts, Harness>>

\* Line 164.
CookingCountsStep ==
  /\ pc = "cooking_counts"
  /\ cooking_counts' = Some(ValueCounts(Get(filtered_df), ColCookingMethod))
  /\ pc' = "violin"
  /\ UNCHANGED <<csv, df, Sidebar, Early, CiVars, avg_price_by_dish, violin_df,
                 avg_price_country, dish_counts, Harness>>

\* Lines 172-176.
ViolinStep ==
  /\ pc = "violin"
  /\ violin_df' = Some(WithDishType(Get(filtered_df)))
  /\ pc' = "avg_price_country"
  /\ UNCHANGED <<csv, df, Sidebar, Early, CiVars, avg_price_by_dish,
                 cooking_counts, avg_price_country, dish_counts, Harness>>

\* Lines 196-198.
AvgPriceCountryStep ==
  /\ pc = "avg_price_country"
  /\ avg_price_country' = Some(GroupMean(df, ColCountry, ColPrice))
  /\ pc' = "dish_counts"
  /\ UNCHANGED <<csv, df, Sidebar, Early, CiVars, avg_price_by_dish,
                 cooking_counts, violin_df, dish_counts, Harness>>

\* Line 214, and the end of the script.
DishCountsStep ==
  /\ pc = "dish_counts"
  /\ dish_counts' = Some(ValueCounts(df, ColCountry))
  /\ pc' = "done"
  /\ UNCHANGED <<csv, df, Sidebar, Early, CiVars, avg_price_by_dish,
                 cooking_counts, violin_df, avg_price_country, Harness>>

\* Streamlit runs the script again from line 1 when the user picks an option
\* of the selectbox (or asks for a rerun): the file is read again, the
\* script's names are unbound, the widget keeps its value and the page keeps
\* what it shows until the new run replaces it.
Rerun ==
  /\ pc \in {"done", "stopped", "error"}
  /\ \E o \in (IF pc = "error" THEN {selected_country}
               ELSE Range(Options(all_countries))) :
       selected_country' = o
  /\ df' = csv
  /\ pc' = "fix_typo"
  /\ all_countries' = <<>>
  /\ filtered_df' = None
  /\ filtered_shares' = FALSE
  /\ warning' = FALSE
  /\ global_avg_price' = None
  /\ avg_price_by_city' = None
  /\ ci_todo' = <<>>
  /\ ci_results' = <<>>
  /\ ci_df' = None
  /\ avg_price_by_dish' = None
  /\ cooking_counts' = None
  /\ violin_df' = None
  /\ avg_price_country' = None
  /\ dish_counts' = None
  /\ UNCHANGED <<csv, page_ci, Harness>>

Next ==
  \/ FixTypoStep
  \/ StripColumnsStep
  \/ MakePriceNumericStep
  \/ IngredientCountStep
  \/ DropNaStep
  \/ SelectCountryStep
  \/ FilterStep
  \/ CheckEmptyStep
  \/ GlobalAvgStep
  \/ AvgPriceByCityStep
  \/ CiStartStep
  \/ CiLoopStep
  \/ CiFrameStep
  \/ CiRenderStep
  \/ DishTypeStep
  \/ CookingCountsStep
  \/ ViolinStep
  \/ AvgPriceCountryStep
  \/ DishCountsStep
  \/ Rerun

Spec == Init /\ [][Next]_vars

\* ------------------------------------------- the functions, called alone
\* compute_ci and the loop body around it, and the IngredientCount
\* derivation, applied to arguments a caller may pass directly.
Prices == {1, 3, 5, 7}
Alphabet == {"a", ",", " "}
Texts == UNION {[1..n -> Alphabet] : n \in 0..MaxText}
TextCells == {Str(t) : t \in Texts} \cup {NA}
EmptyFrame == [columns |-> <<>>, rows |-> <<>>]

\* A frame of two rows: a first row of plain text, so that every column is a
\* text column, and the row under test.
TwoRows(columns, cells) ==
  [columns |-> columns,
   rows |-> <<[idx |-> 0, cells |-> [i \in DOMAIN cells |-> Str(<<"a">>)]],
              [idx |-> 1, cells |-> cells]>>]

Calls ==
  {[fn |-> "ci_row", prices |-> s, frame |-> EmptyFrame] :
     s \in UNION {[1..n -> Prices] : n \in 0..MaxSample}}
  \cup
  {[fn |-> "ingredient_count", prices |-> <<>>,
    frame |-> TwoRows(<<ColIngredients, ColDescription>>, <<i, d>>)] :
     i \in TextCells, d \in {NA, Str(<<"a", " ", "a">>)}}
  \cup
  {[fn |-> "ingredient_count", prices |-> <<>>,
    frame |-> TwoRows(<<ColDescription>>, <<d>>)] : d \in TextCells}

FnInit ==
  /\ call \in {Some(c) : c \in Calls}
  /\ ret = None
  /\ pc = "call"
  /\ csv = EmptyFrame
  /\ df = EmptyFrame
  /\ selected_country = AllText
  /\ all_countries = <<>>
  /\ filtered_df = None
  /\ filtered_shares = FALSE
  /\ warning = FALSE
  /\ global_avg_price = None
  /\ avg_price_by_city = None
  /\ ci_todo = <<>>
  /\ ci_results = <<>>
  /\ ci_df = None
  /\ page_ci = None
  /\ avg_price_by_dish = None
  /\ cooking_counts = None
  /\ violin_df = None
  /\ avg_price_country = None
  /\ dish_counts = None

Pipeline == <<csv, df, Sidebar, Early, CiVars, Later>>

\* Lines 76-84 for one country's prices.
CallCiRow ==
  /\ pc = "call"
  /\ Get(call).fn = "ci_row"
  /\ ret' = Some(CiRow(Peru, Get(call).prices))
  /\ pc' = "returned"
  /\ UNCHANGED <<call, Pipeline>>

\* Lines 24-28 on one frame.
CallIngredientCount ==
  /\ pc = "call"
  /\ Get(call).fn = "ingredient_count"
  /\ ret' = Some(IngredientCount(Get(call).frame))
  /\ pc' = "returned"
  /\ UNCHANGED <<call, Pipeline>>

FnNext ==
  \/ CallCiRow
  \/ CallIngredientCount

FnSpec == FnInit /\ [][FnNext]_vars

\* ---------------------------------------------------------------- claims
CleaningPcs == {"fix_typo", "strip_columns", "make_price_numeric",
                "ingredient_count", "dropna"}
Cleaned == pc \notin CleaningPcs \cup {"error", "call", "returned"}

\* A price cell of the file that is no number: missing, empty, or holding a
\* character that is no digit.
BadPrice(c) ==
  \/ c.k = "na"
  \/ c.k = "str" /\ (c.v = <<>> \/ \E i \in DOMAIN c.v : ~IsDigit(c.v[i]))

PriceColumnOfFile == CHOOSE i \in DOMAIN csv.columns : StrStrip(csv.columns[i]) = ColPrice

\* C1: the cleaned table has no missing value in any column and every price
\* in it is a number; a record of the file whose price cell fails coercion is
\* not in it; a run that ends in an error ends there for a column name that
\* is not found or a text column that holds no text, whatever the price
\* cells hold.
C1_CleanedHasNoMissingValue ==
  /\ Cleaned =>
       /\ \A j \in DOMAIN df.rows : \A i \in DOMAIN df.rows[j].cells :
            df.rows[j].cells[i].k # "na"
       /\ \A j \in DOMAIN df.rows : Cell(df, df.rows[j], ColPrice).k = "num"
       /\ \A j \in DOMAIN csv.rows :
            BadPrice(csv.rows[j].cells[PriceColumnOfFile]) =>
              \A m \in DOMAIN df.rows : df.rows[m].idx # csv.rows[j].idx
  /\ pc = "error" =>
       \/ ~HasCol(csv, ColCountry)
       \/ \E i \in DOMAIN csv.columns :
            /\ StrStrip(csv.columns[i]) \in {ColCountry, ColIngredients, ColDescription}
            /\ csv.rows # <<>>
            /\ \A j \in DOMAIN csv.rows : csv.rows[j].cells[i].k = "na"

C1_Witness ==
  /\ pc = "select_country"
  /\ df.rows # <<>>
  /\ \E j \in DOMAIN csv.rows : BadPrice(csv.rows[j].cells[PriceColumnOfFile])

\* C2: column names are stripped before any column is looked up by name, so
\* a file whose Country header carries surrounding whitespace does not fail
\* the lookup of Country.
C2_StrippedBeforeLookup ==
  (HasCol(StripColumns(csv), ColCountry) /\ ~HasCol(csv, ColCountry)) =>
    pc # "error"

FilterFresh == pc \in {"check_empty", "stopped", "global_avg", "avg_by_city",
                       "ci_start", "ci_loop", "ci_render", "dish_type"}

\* C3: with "All" selected the filter result has the contents of the
\* cleaned table; with a country selected its records are exactly the
\* records of the cleaned table whose Country is that text, character for
\* character.
C3_FilterByCountry ==
  FilterFresh =>
    LET f == Get(filtered_df)
    IN IF selected_country = AllText
       THEN f = df
       ELSE /\ f.columns = df.columns
            /\ \A j \in DOMAIN f.rows :
                 /\ Cell(f, f.rows[j], ColCountry).v = selected_country
                 /\ f.rows[j] \in Range(df.rows)
            /\ \A j \in DOMAIN df.rows :
                 Cell(df, df.rows[j], ColCountry).v = selected_country =>
                   df.rows[j] \in Range(f.rows)

C3_Witness ==
  /\ pc = "check_empty"
  /\ selected_country = Peru
  /\ Get(filtered_df).rows # <<>>
  /\ \E j \in DOMAIN df.rows : Cell(df, df.rows[j], ColCountry).v = PeruLower

NothingAggregated ==
  /\ global_avg_price = None
  /\ avg_price_by_city = None
  /\ ci_results = <<>>
  /\ ci_df = None
  /\ avg_price_by_dish = None
  /\ cooking_counts = None
  /\ violin_df = None
  /\ avg_price_country = None
  /\ dish_counts = None

\* C4: a run whose filter result is empty warns and stops: it computes no
\* aggregate and does not fail; a run warns only for an empty result.
C4_EmptyResultStops ==
  /\ (filtered_df # None /\ Get(filtered_df).rows = <<>> /\ pc # "check_empty") =>
       (warning /\ pc = "stopped" /\ NothingAggregated)
  /\ warning => (filtered_df # None /\ Get(filtered_df).rows = <<>>)

C4_Witness == pc = "stopped" /\ warning /\ csv.rows # <<>>

IsCiCall == call # None /\ ret # None /\ Get(call).fn = "ci_row"

\* C5 as stated: for one value x the result is (x, undefined, undefined, 1),
\* for none (undefined, undefined, undefined, 0), and sampleSize is
\* len(values).
C5_SingleValueKeepsMean ==
  IsCiCall =>
    LET x == Get(call).prices
        r == Get(ret)
    IN /\ r.Sample_Size = Len(x)
       /\ Len(x) = 1 =>
            (~r.Mean.nan /\ FracEq(r.Mean, Frac(x[1], 1))
               /\ r.CI_Lower.nan /\ r.CI_Upper.nan)
       /\ Len(x) = 0 => (r.Mean.nan /\ r.CI_Lower.nan /\ r.CI_Upper.nan)

\* C5 amended: for at most one value the mean and both bounds are undefined
\* and sampleSize is len(values) (1 for one value, 0 for none); for more the
\* mean is sum/len and both bounds are defined.
C5_SentinelForSmallSample ==
  IsCiCall =>
    LET x == Get(call).prices
        r == Get(ret)
    IN /\ r.Sample_Size = Len(x)
       /\ Len(x) <= 1 => (r.Mean.nan /\ r.CI_Lower.nan /\ r.CI_Upper.nan)
       /\ Len(x) > 1 =>
            (~r.Mean.nan /\ r.Mean.num * Len(x) = SumSeq(x) * r.Mean.den
               /\ ~r.CI_Lower.nan /\ ~r.CI_Upper.nan)

C5_Witness == IsCiCall /\ Len(Get(call).prices) = 1 /\ Get(ret).Sample_Size = 1

\* C6: the per-city means have one row per city of the filter result, in
\* descending order of mean, rows of equal mean in ascending order of city.
C6_MeanByKeyOrder ==
  avg_price_by_city # None =>
    LET s == Get(avg_price_by_city)
        f == Get(filtered_df)
    IN /\ {s[i].key : i \in DOMAIN s} =
            {Cell(f, f.rows[j], ColCity).v : j \in DOMAIN f.rows}
       /\ \A i, j \in DOMAIN s : i # j => s[i].key # s[j].key
       /\ \A i \in 1..(Len(s) - 1) :
            \/ FracLess(s[i + 1].mean, s[i].mean)
            \/ FracEq(s[i].mean, s[i + 1].mean) /\ TextLess(s[i].key, s[i + 1].key)

CountryCount(d, c) ==
  Cardinality({j \in DOMAIN d.rows : Cell(d, d.rows[j], ColCountry).v = c})

\* C7: the confidence-interval table has one row per country of the whole
\* cleaned table, in ascending order, with Sample_Size the number of that
\* country's records in the whole cleaned table, whatever is selected; and
\* it is the table the page shows from the run before.
C7_CiIgnoresFilter ==
  ci_df # None =>
    LET t == Get(ci_df)
    IN /\ {t[i].Country : i \in DOMAIN t} =
            {Cell(df, df.rows[j], ColCountry).v : j \in DOMAIN df.rows}
       /\ \A i \in 1..(Len(t) - 1) : TextLess(t[i].Country, t[i + 1].Country)
       /\ \A i \in DOMAIN t : t[i].Sample_Size = CountryCount(df, t[i].Country)
       /\ page_ci # None => page_ci = ci_df

C7_Witness ==
  /\ pc = "ci_render"
  /\ page_ci # None
  /\ selected_country # AllText
  /\ Len(Get(filtered_df).rows) < Len(df.rows)

IsDeriveCall == call # None /\ ret # None /\ Get(call).fn = "ingredient_count"

Commas(t) == Cardinality({i \in DOMAIN t : t[i] = ","})
WordStarts(t) ==
  Cardinality({i \in DOMAIN t : t[i] # " " /\ (i = 1 \/ t[i - 1] = " ")})

\* C8: with an Ingredients column IngredientCount is one more than the
\* number of commas of Ingredients (1 for the empty text) and never comes
\* from Description; without one it is the number of whitespace-separated
\* words of Description.
C8_IngredientCount ==
  IsDeriveCall =>
    LET d == Get(call).frame
        r == Get(ret)
        n == Cell(r, r.rows[2], ColIngredientCount)
    IN IF HasCol(d, ColIngredients)
       THEN LET i == Cell(d, d.rows[2], ColIngredients)
            IN /\ i.k = "str" => n = Num(Commas(i.v) + 1)
               /\ i.k = "na" => n = NA
               /\ i = Str(<<>>) => n = Num(1)
       ELSE LET w == Cell(d, d.rows[2], ColDescription)
            IN /\ w.k = "str" => n = Num(WordStarts(w.v))
               /\ w.k = "na" => n = NA

C8_Witness ==
  /\ IsDeriveCall
  /\ HasCol(Get(call).frame, ColIngredients)
  /\ Cell(Get(call).frame, Get(call).frame.rows[2], ColIngredients) = Str(<<>>)
  /\ Cell(Get(ret), Get(ret).rows[2], ColIngredientCount) = Num(1)

\* C9: once cleaning is over no step of the run changes the cleaned table.
C9_CleanedIsReadOnly ==
  [][(Cleaned /\ pc' # "fix_typo") => df' = df]_vars

C9_Witness ==
  /\ pc = "done"
  /\ HasCol(Get(filtered_df), ColDishType)
  /\ HasCol(Get(violin_df), ColDishType)
  /\ ~HasCol(df, ColDishType)
  /\ selected_country = AllText

\* C10: the filter result is empty exactly when the cleaned table is; every
\* country offered for selection has a record; a run warns only with "All"
\* selected on an empty cleaned table.
C10_EmptyOnlyWhenTableEmpty ==
  /\ filtered_df # None =>
       /\ (Get(filtered_df).rows = <<>>) <=> (df.rows = <<>>)
       /\ \A i \in 2..Len(Options(all_countries)) :
            CountryCount(df, Options(all_countries)[i]) > 0
       /\ selected_country \in Range(Options(all_countries))
  /\ warning => (selected_country = AllText /\ df.rows = <<>>)

C10_Witness ==
  /\ pc = "check_empty"
  /\ selected_country # AllText
  /\ Get(filtered_df).rows # <<>>
  /\ Len(Get(filtered_df).rows) < Len(df.rows)

====
